---- MODULE Spec2Model ----
(***************************************************************************)
(* The pytest fixture db_with_premium_customers of 2-testing-databases     *)
(* and the test that uses it, run against the customers table through the  *)
(* module-level cursor.                                                    *)
(*                                                                         *)
(* One fixture invocation is the generator of lines 172-181 driven by      *)
(* pytest: the statements before the yield are the setup, the test         *)
(* function is the body, the statements after the yield are the teardown.  *)
(* Every call on the cursor is a call into the database driver and may     *)
(* raise; the model draws its outcome from Outcomes.                       *)
(***************************************************************************)
EXTENDS Integers, Sequences, FiniteSets, Bags, TLC

\* ------------------------------------------------------------------ bounds
\* Number of test items of one session that use the fixture.
MaxTests == 2
\* Largest number of rows the customers table holds before the session.
MaxPre == 1

Invocations == 1..MaxTests

\* Under a parallel runner two invocations overlap; the others wait.
ConcurrentInvocations == {1, 2}

\* ------------------------------------------------------------------- rows
\* The two rows of the setup (lines 175-176).
Bob == [first_name |-> "bob", last_name |-> "smith", category |-> "premium"]
Fred == [first_name |-> "fred", last_name |-> "samuel", category |-> "standard"]
SetupRows == {Bob, Fred}

\* Rows the table may hold before the session starts.
Amy == [first_name |-> "amy", last_name |-> "adams", category |-> "premium"]
Zed == [first_name |-> "zed", last_name |-> "young", category |-> "standard"]
PreExistingRows == {Amy, Zed}

RECURSIVE BagsUpTo(_)
BagsUpTo(n) ==
    IF n = 0 THEN {EmptyBag}
    ELSE LET smaller == BagsUpTo(n - 1)
         IN smaller \cup {b (+) SetToBag({r}) : b \in smaller, r \in PreExistingRows}

InitialTables == BagsUpTo(MaxPre)

\* --------------------------------------------------------------- database
\* Outcome of one call on the cursor:
\*   ok     the call returns;
\*   abort  the server rejects the statement: the call raises and the
\*          transaction is aborted (a failed COMMIT rolls it back);
\*   raise  the call raises before it reaches the server (a driver error, or
\*          an attribute the cursor object does not have): the transaction is
\*          left as it was.
Outcomes == {"ok", "abort", "raise"}

ExceptionOf(o) == IF o = "abort" THEN "DatabaseError" ELSE "DriverError"

\* cursor.execute(insert_into, row) that succeeded.
Insert(t, row) == t (+) SetToBag({row})

\* Variants of the delete: with a WHERE clause on the category, and with one
\* that names the rows of the setup.
DeleteStandardOnly(t) ==
    [r \in {x \in DOMAIN t : x.category = "premium"} |-> t[r]]

DeleteSetupRowsOnly(t) ==
    [r \in {x \in DOMAIN t : x \notin SetupRows} |-> t[r]]

\* cursor.execute('DELETE FROM customers;') that succeeded (lines 180, 257).
DeleteFrom(t) == EmptyBag

\* SELECT COUNT(*) FROM customers WHERE category = c.
CountWhere(t, c) ==
    BagCardinality([r \in {x \in DOMAIN t : x.category = c} |-> t[r]])

\* Variant of SelectPremiumCount: the query without its WHERE clause.
SelectCountAll(t) == << <<BagCardinality(t)>> >>

\* The result set of the query of premium_user_count (line 42): one row
\* holding one column.
SelectPremiumCount(t) == << <<CountWhere(t, "premium")>> >>

\* The cursor holds no result set after a statement that returns no rows.
NoResult == "no results"

\* ---------------------------------------------------------- Python values
PyInt(n) == [tag |-> "int", val |-> n]
PyList(s) == [tag |-> "list", val |-> s]
PyNone == [tag |-> "none", val |-> <<>>]

\* Python's == between an int and a list of tuples: values of different
\* types are never equal.
PyEq(a, b) == a.tag = b.tag /\ a.val = b.val

\* What premium_user_count returns (line 43): cursor.fetchall(), the list of
\* the rows of the result set.
FetchAll(rs) == PyList(rs)

\* assert premium_user_count() == 1 (lines 198, 261).
AssertHolds(returned) == PyEq(returned, PyInt(1))

\* ------------------------------------------------- movies_by_genre: SQL
\* Longest genre argument, in tokens.
MaxGenreLen == 4

\* The text of a query is a sequence of tokens. A genre argument is made of
\* a word, the name of a column, the quote character, the semicolon, the text
\* of a DROP statement and the comment marker.
Word == "action"
ColumnName == "genre"
Quote == "'"
Semi == ";"
DropUsers == "DROP TABLE users"
Comment == "--"
GenreTokens == {Word, ColumnName, Quote, Semi, DropUsers, Comment}

\* The constant text of both queries (lines 45, 136).
SelectHead == "SELECT * FROM movies WHERE genre ="
Placeholder == "%s"

RECURSIVE SeqsUpTo(_, _)
SeqsUpTo(S, n) ==
    IF n = 0 THEN {<<>>}
    ELSE LET shorter == SeqsUpTo(S, n - 1)
         IN shorter \cup {Append(q, x) : q \in shorter, x \in S}

GenreInputs == SeqsUpTo(GenreTokens, MaxGenreLen)

\* Line 45: the f-string puts the argument's text into the statement.
InterpolatedQuery(genre) == <<SelectHead>> \o genre \o <<Semi>>

\* The statement text of line 136: the f-string has no replacement field.
ParameterizedTemplate == <<SelectHead, Placeholder, Semi>>

RECURSIVE EscapeQuotes(_)
\* The driver doubles every quote character of a string argument.
EscapeQuotes(text) ==
    IF text = <<>> THEN <<>>
    ELSE (IF Head(text) = Quote THEN <<Quote, Quote>> ELSE <<Head(text)>>)
         \o EscapeQuotes(Tail(text))

\* Variant of AdaptString: the argument is put between quotes as it is.
AdaptStringUnescaped(text) == <<Quote>> \o text \o <<Quote>>

\* The driver turns a string argument into a quoted SQL literal.
AdaptString(text) == <<Quote>> \o EscapeQuotes(text) \o <<Quote>>

RECURSIVE Bind(_, _)
\* cursor.execute(query, (genre,)) (line 136): the driver replaces the
\* placeholder of the statement text by the adapted argument.
Bind(query, genre) ==
    IF query = <<>> THEN <<>>
    ELSE (IF Head(query) = Placeholder
          THEN AdaptString(genre) ELSE <<Head(query)>>)
         \o Bind(Tail(query), genre)

\* -------------------------------------------------- the server's reading
Lexeme(kind, text) == [kind |-> kind, text |-> text]

RECURSIVE Lex(_, _, _, _, _)
\* The server's lexer from token k of sql on; open: inside a string literal
\* whose text so far is text. Inside a literal two quotes stand for one
\* quote character and every other token is text; outside, a comment marker
\* ends the line. A literal that is not closed is an error.
Lex(sql, k, open, text, out) ==
    IF k > Len(sql)
    THEN IF open THEN Append(out, Lexeme("error", <<>>)) ELSE out
    ELSE IF open
    THEN IF sql[k] = Quote
         THEN IF k < Len(sql) /\ sql[k + 1] = Quote
              THEN Lex(sql, k + 2, TRUE, Append(text, Quote), out)
              ELSE Lex(sql, k + 1, FALSE, <<>>,
                       Append(out, Lexeme("string", text)))
         ELSE Lex(sql, k + 1, TRUE, Append(text, sql[k]), out)
    ELSE CASE sql[k] = Quote -> Lex(sql, k + 1, TRUE, <<>>, out)
           [] sql[k] = Comment -> out
           [] sql[k] = Semi ->
                Lex(sql, k + 1, FALSE, <<>>, Append(out, Lexeme("semi", <<>>)))
           [] sql[k] = SelectHead ->
                Lex(sql, k + 1, FALSE, <<>>, Append(out, Lexeme("select", <<>>)))
           [] sql[k] = DropUsers ->
                Lex(sql, k + 1, FALSE, <<>>, Append(out, Lexeme("drop", <<>>)))
           [] OTHER ->
                Lex(sql, k + 1, FALSE, <<>>,
                    Append(out, Lexeme("word", <<sql[k]>>)))

RECURSIVE SplitStatements(_, _, _, _)
\* The statements of a query string: the lexemes between semicolons; an
\* empty statement is no statement.
SplitStatements(lexemes, k, current, out) ==
    LET closed == IF current = <<>> THEN out ELSE Append(out, current)
    IN IF k > Len(lexemes) THEN closed
       ELSE IF lexemes[k].kind = "semi"
       THEN SplitStatements(lexemes, k + 1, <<>>, closed)
       ELSE SplitStatements(lexemes, k + 1, Append(current, lexemes[k]), out)

\* The server's parse of one statement: the SELECT compares the genre column
\* with a string literal or with what a word names; DROP TABLE users stands
\* alone; nothing else is a statement.
ParseStatement(st) ==
    CASE Len(st) = 2 /\ st[1].kind = "select" /\ st[2].kind = "string" ->
            [op |-> "SELECT", data |-> st[2].text]
      [] Len(st) = 2 /\ st[1].kind = "select" /\ st[2].kind = "word" ->
            [op |-> "SELECT BY COLUMN", data |-> st[2].text]
      [] Len(st) = 1 /\ st[1].kind = "drop" ->
            [op |-> "DROP", data |-> <<>>]
      [] OTHER -> [op |-> "syntax error", data |-> <<>>]

\* The server parses the whole query string before it executes any of it.
ParseQuery(sql) ==
    LET sts == SplitStatements(Lex(sql, 1, FALSE, <<>>, <<>>), 1, <<>>, <<>>)
    IN [k \in 1..Len(sts) |-> ParseStatement(sts[k])]

AllTables == {"movies", "users"}

\* The columns of movies (notebook 0, line 119).
MovieColumns == {"name", "genre"}

RECURSIVE ExecuteFrom(_, _, _, _)
\* The server executes the statements in order and stops at the first that
\* fails; the failure aborts the transaction and undoes what it changed.
ExecuteFrom(stmts, k, tables, ran) ==
    IF k > Len(stmts)
    THEN [executed |-> ran, tables |-> tables, raised |-> "none"]
    ELSE CASE stmts[k].op = "SELECT" ->
                ExecuteFrom(stmts, k + 1, tables, Append(ran, stmts[k]))
           [] stmts[k].op = "SELECT BY COLUMN" ->
                IF stmts[k].data[1] \in MovieColumns
                THEN ExecuteFrom(stmts, k + 1, tables, Append(ran, stmts[k]))
                ELSE [executed |-> ran, tables |-> AllTables,
                      raised |-> "UndefinedColumn"]
           [] stmts[k].op = "DROP" ->
                IF "users" \in tables
                THEN ExecuteFrom(stmts, k + 1, tables \ {"users"},
                                 Append(ran, stmts[k]))
                ELSE [executed |-> ran, tables |-> AllTables,
                      raised |-> "UndefinedTable"]

\* cursor.execute(sql) followed by cursor.fetchall() (lines 45-46, 136-137)
\* on a database that holds AllTables: a query string with a syntax error
\* executes nothing; fetchall raises when the last statement returned no rows.
ExecuteAndFetch(sql) ==
    LET stmts == ParseQuery(sql)
    IN IF \E k \in 1..Len(stmts) : stmts[k].op = "syntax error"
       THEN [executed |-> <<>>, tables |-> AllTables, raised |-> "SyntaxError"]
       ELSE LET r == ExecuteFrom(stmts, 1, AllTables, <<>>)
            IN IF /\ r.raised = "none"
                  /\ (r.executed = <<>>
                        \/ r.executed[Len(r.executed)].op = "DROP")
               THEN [r EXCEPT !.raised = "ProgrammingError"]
               ELSE r

\* ------------------------------------------------------------ the tests
\* test_premium_user_count (lines 197-198, 260-261) and a second test that
\* reuses the fixture and asserts nothing (lines 207, 286-287).
Tests == {"test_premium_user_count", "test_function"}

\* ---------------------------------------------------------------- state
VARIABLES
    mode,       \* "sequential": pytest runs one test after the other;
                \* "concurrent": two invocations share the cursor at once
    committed,  \* the rows of customers that are committed
    view,       \* the rows the cursor's session sees: committed and pending
    aborted,    \* the session's transaction is aborted
    result,     \* the result set the cursor holds, or NoResult
    pc,         \* pc[i]: the statement invocation i executes next
    test,       \* test[i]: the test function that requests the fixture
    report,     \* report[i]: pytest's setup, call and teardown reports
    signalled,  \* signalled[i]: the failures reported to the caller, in order
    log,        \* log[i]: the statements executed, each with its outcome
    obs,        \* obs[i]: what premium_user_count returned to the body
    before,     \* before[i]: the rows the session saw when setup started
    overlap,    \* overlap[i]: another invocation used the cursor between
                \* i's first insert and the return of its premium_user_count
    inj         \* the calls of movies_by_genre: the genre argument and, for
                \* each version of the function, what its call did

vars == <<mode, committed, view, aborted, result, pc, test, report,
          signalled, log, obs, before, overlap, inj>>

\* The two versions of movies_by_genre (lines 44-46 and 135-137).
Versions == {"interpolated", "parameterized"}

\* A version that has not been called, on a database holding AllTables.
NotCalled ==
    [pc |-> "ready", sql |-> <<>>, executed |-> <<>>, tables |-> AllTables,
     raised |-> "none"]

NoCalls == [genre |-> <<>>, run |-> [v \in Versions |-> NotCalled]]

NotRun == "not run"
NoReport == [setup |-> NotRun, call |-> NotRun, teardown |-> NotRun]

InitIn(m) ==
    /\ mode = m
    /\ committed \in InitialTables
    /\ view = committed
    /\ aborted = FALSE
    /\ result = NoResult
    /\ pc = [i \in Invocations |-> "setup_insert1"]
    /\ test \in [Invocations -> Tests]
    /\ report = [i \in Invocations |-> NoReport]
    /\ signalled = [i \in Invocations |-> <<>>]
    /\ log = [i \in Invocations |-> <<>>]
    /\ obs = [i \in Invocations |-> PyNone]
    /\ before = [i \in Invocations |-> NotRun]
    /\ overlap = [i \in Invocations |-> FALSE]
    /\ inj = NoCalls

Init == InitIn("sequential")

InitConcurrent == InitIn("concurrent")

\* pytest runs the items of a session one after the other; a parallel
\* runner lets the invocations of ConcurrentInvocations interleave.
Scheduled(i) ==
    IF mode = "concurrent"
    THEN i \in ConcurrentInvocations
    ELSE \A j \in 1..(i - 1) : pc[j] = "done"

\* -------------------------------------------------- the generator's flow
\* Variant of NextStatement: the yield stands before the commit.
NextStatementYieldEarly(stmt) ==
    CASE stmt = "setup_insert1" -> "setup_insert2"
      [] stmt = "setup_insert2" -> "call"
      [] stmt = "setup_commit" -> "call"
      [] stmt = "teardown_delete" -> "teardown_commit"
      [] stmt = "teardown_commit" -> "done"

\* The statement after stmt when stmt returns (lines 175-181): the yield
\* after the commit hands control to the test function.
NextStatement(stmt) ==
    CASE stmt = "setup_insert1" -> "setup_insert2"
      [] stmt = "setup_insert2" -> "setup_commit"
      [] stmt = "setup_commit" -> "call"
      [] stmt = "teardown_delete" -> "teardown_commit"
      [] stmt = "teardown_commit" -> "done"

\* Variant of OnSetupRaise: the setup stands inside a try/finally.
OnSetupRaiseTeardown == "teardown_delete"

\* A statement before the yield raises: the exception leaves the generator,
\* which is finished; pytest calls neither the test nor a finalizer.
OnSetupRaise == "done"

\* Variant of OnCallEnd: the cleanup follows the test in straight line, as in
\* the test of lines 92-104.
OnCallEndSkipOnFailure(outcome) ==
    IF outcome = "passed" THEN "teardown_delete" ELSE "done"

\* The test function returned or raised: pytest resumes the generator after
\* its yield (lines 178-179), whatever the outcome of the call.
OnCallEnd(outcome) == "teardown_delete"

\* Variants of Signal: the last failure replaces the earlier ones, as an
\* exception raised in a finally block does; and a failure that is dropped.
SignalMasking(sig, phase, exc) == << <<phase, exc>> >>

SignalSwallowed(sig, phase, exc) == sig

\* pytest reports every phase's failure to the caller; an earlier failure of
\* the same item stays reported.
Signal(sig, phase, exc) == Append(sig, <<phase, exc>>)

\* Invocation j is between its first insert and the value its body reads.
InWindow(j) == pc[j] \in {"setup_insert2", "setup_commit", "call", "fetch"}

\* Invocation i uses the cursor.
Touch(i) ==
    overlap' = [j \in Invocations |-> overlap[j] \/ (j # i /\ InWindow(j))]

ExecOutcomes == IF aborted THEN Outcomes \ {"ok"} ELSE Outcomes

Logged(i, stmt, o) == [log EXCEPT ![i] = Append(@, <<stmt, o>>)]

\* What a setup statement's outcome does to the invocation.
SetupFlow(i, stmt, o) ==
    /\ log' = Logged(i, stmt, o)
    /\ IF o = "ok"
       THEN /\ pc' = [pc EXCEPT ![i] = NextStatement(stmt)]
            /\ report' = IF NextStatement(stmt) = "call"
                         THEN [report EXCEPT ![i].setup = "passed"]
                         ELSE report
            /\ UNCHANGED signalled
       ELSE /\ pc' = [pc EXCEPT ![i] = OnSetupRaise]
            /\ report' = [report EXCEPT ![i].setup = "error"]
            /\ signalled' = [signalled EXCEPT
                                ![i] = Signal(@, "setup", ExceptionOf(o))]

\* What the end of the test function does to the invocation.
CallFlow(i, stmt, outcome) ==
    /\ log' = Logged(i, stmt, outcome)
    /\ pc' = [pc EXCEPT ![i] = OnCallEnd(outcome)]
    /\ IF outcome = "passed"
       THEN /\ report' = [report EXCEPT ![i].call = "passed"]
            /\ UNCHANGED signalled
       ELSE /\ report' = [report EXCEPT ![i].call = "failed"]
            /\ signalled' = [signalled EXCEPT ![i] = Signal(@, "call", outcome)]

\* What a teardown statement's outcome does to the invocation.
TeardownFlow(i, stmt, o) ==
    /\ log' = Logged(i, stmt, o)
    /\ IF o = "ok"
       THEN /\ pc' = [pc EXCEPT ![i] = NextStatement(stmt)]
            /\ report' = IF NextStatement(stmt) = "done"
                         THEN [report EXCEPT ![i].teardown = "passed"]
                         ELSE report
            /\ UNCHANGED signalled
       ELSE /\ pc' = [pc EXCEPT ![i] = "done"]
            /\ report' = [report EXCEPT ![i].teardown = "error"]
            /\ signalled' = [signalled EXCEPT
                                ![i] = Signal(@, "teardown", ExceptionOf(o))]

\* --------------------------------------------------------- cursor calls
\* The rows the session sees after a call with outcome o that would leave
\* it seeing t: the server discards the pending rows of a transaction it
\* aborts, and no statement reads them before the rollback.
Seen(t, o) ==
    CASE o = "ok" -> t
      [] o = "abort" -> committed
      [] o = "raise" -> view

\* cursor.execute(insert_into, row)
ExecuteInsert(row, o) ==
    /\ view' = Seen(Insert(view, row), o)
    /\ aborted' = (aborted \/ o = "abort")
    /\ result' = IF o = "raise" THEN result ELSE NoResult
    /\ UNCHANGED committed

\* cursor.execute('DELETE FROM customers;')
ExecuteDelete(o) ==
    /\ view' = Seen(DeleteFrom(view), o)
    /\ aborted' = (aborted \/ o = "abort")
    /\ result' = IF o = "raise" THEN result ELSE NoResult
    /\ UNCHANGED committed

\* cursor.commit(): on an aborted transaction the server answers with a
\* rollback; a commit the server rejects is rolled back too.
Commit(o) ==
    /\ committed' = IF o = "ok" /\ ~aborted THEN view ELSE committed
    /\ view' = Seen(view, o)
    /\ aborted' = IF o = "raise" THEN aborted ELSE FALSE
    /\ UNCHANGED result

\* ------------------------------------------------------------- actions
\* Line 175 (252): the first insert of the setup.
SetupInsert1(i) ==
    /\ Scheduled(i)
    /\ Touch(i)
    /\ pc[i] = "setup_insert1"
    /\ \E o \in ExecOutcomes :
          /\ ExecuteInsert(Bob, o)
          /\ SetupFlow(i, "setup_insert1", o)
    /\ before' = [before EXCEPT ![i] = view]
    /\ UNCHANGED <<inj, mode, test, obs>>

\* Line 176 (253): the second insert of the setup.
SetupInsert2(i) ==
    /\ Scheduled(i)
    /\ Touch(i)
    /\ pc[i] = "setup_insert2"
    /\ \E o \in ExecOutcomes :
          /\ ExecuteInsert(Fred, o)
          /\ SetupFlow(i, "setup_insert2", o)
    /\ UNCHANGED <<inj, mode, test, obs, before>>

\* Line 177 (254): the commit of the setup, then the yield of line 178.
SetupCommit(i) ==
    /\ Scheduled(i)
    /\ Touch(i)
    /\ pc[i] = "setup_commit"
    /\ \E o \in Outcomes :
          /\ Commit(o)
          /\ SetupFlow(i, "setup_commit", o)
    /\ UNCHANGED <<inj, mode, test, obs, before>>

\* Lines 286-287: a test function that uses the fixture and returns.
BodyPass(i) ==
    /\ Scheduled(i)
    /\ Touch(i)
    /\ pc[i] = "call"
    /\ test[i] = "test_function"
    /\ CallFlow(i, "call", "passed")
    /\ UNCHANGED <<inj, mode, committed, view, aborted, result, test, obs, before>>

\* Line 42: the query of premium_user_count, called by the test function.
BodyExecute(i) ==
    /\ Scheduled(i)
    /\ Touch(i)
    /\ pc[i] = "call"
    /\ test[i] = "test_premium_user_count"
    /\ \E o \in ExecOutcomes :
          /\ aborted' = (aborted \/ o = "abort")
          /\ view' = Seen(view, o)
          /\ IF o = "ok"
             THEN /\ result' = SelectPremiumCount(view)
                  /\ pc' = [pc EXCEPT ![i] = "fetch"]
                  /\ log' = Logged(i, "call", "ok")
                  /\ UNCHANGED <<report, signalled>>
             ELSE /\ result' = IF o = "raise" THEN result ELSE NoResult
                  /\ CallFlow(i, "call", ExceptionOf(o))
    /\ UNCHANGED <<inj, mode, committed, test, obs, before>>

\* Line 43 and line 198: premium_user_count returns cursor.fetchall() and
\* the test function asserts on the value returned.
BodyFetchAssert(i) ==
    /\ Scheduled(i)
    /\ Touch(i)
    /\ pc[i] = "fetch"
    /\ IF result = NoResult
       THEN /\ CallFlow(i, "fetch", "ProgrammingError")
            /\ UNCHANGED <<result, obs>>
       ELSE /\ result' = <<>>
            /\ obs' = [obs EXCEPT ![i] = FetchAll(result)]
            /\ CallFlow(i, "fetch",
                        IF AssertHolds(FetchAll(result))
                        THEN "passed" ELSE "AssertionError")
    /\ UNCHANGED <<inj, mode, committed, view, aborted, test, before>>

\* Line 180 (257): pytest resumes the generator; the delete of the teardown.
TeardownDelete(i) ==
    /\ Scheduled(i)
    /\ Touch(i)
    /\ pc[i] = "teardown_delete"
    /\ \E o \in ExecOutcomes :
          /\ ExecuteDelete(o)
          /\ TeardownFlow(i, "teardown_delete", o)
    /\ UNCHANGED <<inj, mode, test, obs, before>>

\* Line 181 (258): the commit of the teardown; the generator ends.
TeardownCommit(i) ==
    /\ Scheduled(i)
    /\ Touch(i)
    /\ pc[i] = "teardown_commit"
    /\ \E o \in Outcomes :
          /\ Commit(o)
          /\ TeardownFlow(i, "teardown_commit", o)
    /\ UNCHANGED <<inj, mode, test, obs, before>>

Next ==
    \E i \in Invocations :
       \/ SetupInsert1(i)
       \/ SetupInsert2(i)
       \/ SetupCommit(i)
       \/ BodyPass(i)
       \/ BodyExecute(i)
       \/ BodyFetchAssert(i)
       \/ TeardownDelete(i)
       \/ TeardownCommit(i)

\* One pytest session: the tests run one after the other.
Spec == Init /\ [][Next]_vars

\* Two invocations at once on the shared cursor.
SpecConcurrent == InitConcurrent /\ [][Next]_vars

\* ------------------------------------- the test without a fixture
\* The statements of test_premium_user_count as first written (lines
\* 92-104), in their order: the two inserts and the commit, the query and
\* the assertion on what premium_user_count returns, the delete and its
\* commit.
InlineStatements ==
    <<"inline_insert1", "inline_insert2", "inline_commit", "inline_select",
      "inline_fetch_assert", "inline_delete", "inline_cleanup_commit">>

InlinePosition(stmt) ==
    CHOOSE k \in 1..Len(InlineStatements) : InlineStatements[k] = stmt

\* The statement after stmt: the next one when stmt returned; an exception
\* leaves the test function, which has no try/finally.
AfterInlineStatement(stmt, returned) ==
    IF returned /\ InlinePosition(stmt) < Len(InlineStatements)
    THEN InlineStatements[InlinePosition(stmt) + 1]
    ELSE "done"

\* Runs of the test in one session, one after the other.
InitInline ==
    /\ mode = "inline"
    /\ committed \in InitialTables
    /\ view = committed
    /\ aborted = FALSE
    /\ result = NoResult
    /\ pc = [i \in Invocations |-> InlineStatements[1]]
    /\ test = [i \in Invocations |-> "test_premium_user_count"]
    /\ report = [i \in Invocations |-> NoReport]
    /\ signalled = [i \in Invocations |-> <<>>]
    /\ log = [i \in Invocations |-> <<>>]
    /\ obs = [i \in Invocations |-> PyNone]
    /\ before = [i \in Invocations |-> NotRun]
    /\ overlap = [i \in Invocations |-> FALSE]
    /\ inj = NoCalls

\* cursor.execute of the query of premium_user_count (line 42).
ExecuteSelect(o) ==
    /\ view' = Seen(view, o)
    /\ aborted' = (aborted \/ o = "abort")
    /\ result' = CASE o = "ok" -> SelectPremiumCount(view)
                    [] o = "abort" -> NoResult
                    [] o = "raise" -> result
    /\ UNCHANGED committed

\* return cursor.fetchall() (line 43).
Fetch ==
    /\ result' = IF result = NoResult THEN result ELSE <<>>
    /\ UNCHANGED <<committed, view, aborted>>

\* What statement stmt does to the database when the cursor's call has
\* outcome o.
InlineEffect(stmt, o) ==
    CASE stmt = "inline_insert1" -> ExecuteInsert(Bob, o)
      [] stmt = "inline_insert2" -> ExecuteInsert(Fred, o)
      [] stmt = "inline_commit" -> Commit(o)
      [] stmt = "inline_select" -> ExecuteSelect(o)
      [] stmt = "inline_fetch_assert" -> Fetch
      [] stmt = "inline_delete" -> ExecuteDelete(o)
      [] stmt = "inline_cleanup_commit" -> Commit(o)

\* The outcomes stmt can have.
InlineOutcomes(stmt) ==
    CASE stmt \in {"inline_commit", "inline_cleanup_commit"} -> Outcomes
      [] stmt = "inline_fetch_assert" -> {"ok"}
      [] OTHER -> ExecOutcomes

\* How stmt ends: "ok" when it returns, else the exception it raises. The
\* assertion of line 100 compares what premium_user_count returned with 1.
InlineEnd(stmt, o) ==
    IF stmt = "inline_fetch_assert"
    THEN IF result = NoResult THEN "ProgrammingError"
         ELSE IF AssertHolds(FetchAll(result)) THEN "ok" ELSE "AssertionError"
    ELSE IF o = "ok" THEN "ok" ELSE ExceptionOf(o)

\* Lines 92-104: run i of the test executes its next statement.
InlineStatement(i) ==
    /\ mode = "inline"
    /\ Scheduled(i)
    /\ pc[i] \in {InlineStatements[k] : k \in 1..Len(InlineStatements)}
    /\ \E o \in InlineOutcomes(pc[i]) :
          LET stmt == pc[i]
              end == InlineEnd(stmt, o)
              next == AfterInlineStatement(stmt, end = "ok")
          IN /\ InlineEffect(stmt, o)
             /\ pc' = [pc EXCEPT ![i] = next]
             /\ log' = Logged(i, stmt, end)
             /\ report' = [report EXCEPT ![i].call =
                              IF end # "ok" THEN "failed"
                              ELSE IF next = "done" THEN "passed" ELSE @]
             /\ signalled' = IF end = "ok" THEN signalled
                             ELSE [signalled EXCEPT ![i] = Signal(@, "call", end)]
             /\ obs' = IF stmt = "inline_fetch_assert" /\ result # NoResult
                       THEN [obs EXCEPT ![i] = FetchAll(result)]
                       ELSE obs
             /\ before' = IF stmt = "inline_insert1"
                          THEN [before EXCEPT ![i] = view]
                          ELSE before
    /\ UNCHANGED <<inj, mode, test, overlap>>

NextInline == \E i \in Invocations : InlineStatement(i)

SpecInline == InitInline /\ [][NextInline]_vars

\* ------------------------------------------------------ movies_by_genre
\* The variables of the fixture's session.
fixtureVars == <<mode, committed, view, aborted, result, pc, test, report,
                 signalled, log, obs, before, overlap>>

\* An API request arrives with any genre; each version of movies_by_genre
\* is called with it on its own copy of the database.
InitInjection ==
    /\ mode = "requests"
    /\ committed = EmptyBag
    /\ view = EmptyBag
    /\ aborted = FALSE
    /\ result = NoResult
    /\ pc = [i \in Invocations |-> "done"]
    /\ test = [i \in Invocations |-> "test_function"]
    /\ report = [i \in Invocations |-> NoReport]
    /\ signalled = [i \in Invocations |-> <<>>]
    /\ log = [i \in Invocations |-> <<>>]
    /\ obs = [i \in Invocations |-> PyNone]
    /\ before = [i \in Invocations |-> NotRun]
    /\ overlap = [i \in Invocations |-> FALSE]
    /\ \E g \in GenreInputs : inj = [NoCalls EXCEPT !.genre = g]

\* The call of version v with query string sql: the driver raises before
\* the string reaches the server, or the server reads and executes it.
Called(v, sql) ==
    /\ mode = "requests"
    /\ inj.run[v].pc = "ready"
    /\ \E o \in {"ok", "raise"} :
          inj' = [inj EXCEPT !.run[v] =
                    IF o = "raise"
                    THEN [NotCalled EXCEPT !.pc = "done", !.sql = sql,
                                           !.raised = ExceptionOf(o)]
                    ELSE [pc |-> "done", sql |-> sql] @@ ExecuteAndFetch(sql)]
    /\ UNCHANGED fixtureVars

\* Lines 44-46: movies_by_genre with the f-string.
MoviesByGenreInterpolated ==
    Called("interpolated", InterpolatedQuery(inj.genre))

\* Lines 135-137: movies_by_genre with the placeholder and the tuple.
MoviesByGenreParameterized ==
    Called("parameterized", Bind(ParameterizedTemplate, inj.genre))

NextInjection == MoviesByGenreInterpolated \/ MoviesByGenreParameterized

SpecInjection == InitInjection /\ [][NextInjection]_vars

\* ---------------------------------------------------- reading the state
\* How often invocation i executed stmt.
Executed(i, stmt) ==
    Cardinality({k \in 1..Len(log[i]) : log[i][k][1] = stmt})

\* How often pytest resumed the generator of invocation i after its yield.
TeardownInvocations(i) == Executed(i, "teardown_delete")

SetupSucceeded(i) == report[i].setup = "passed"

\* Invocation i has ended and no later test of the session has started.
JustCompleted(i) ==
    /\ pc[i] = "done"
    /\ \A j \in Invocations : j > i => pc[j] = "setup_insert1"

\* Setup and teardown of invocation i both ran to their end.
CleanedUp(i) ==
    /\ SetupSucceeded(i)
    /\ report[i].teardown = "passed"
    /\ JustCompleted(i)

\* The failure the test function of invocation i raised.
BodyFailure(i) == log[i][CHOOSE k \in 1..Len(log[i]) :
                            /\ log[i][k][1] \in {"call", "fetch"}
                            /\ log[i][k][2] \notin {"ok", "passed"}][2]

\* The phase a statement belongs to: setup, body, teardown.
Phase(stmt) ==
    CASE stmt \in {"setup_insert1", "setup_insert2", "setup_commit"} -> 1
      [] stmt \in {"call", "fetch"} -> 2
      [] stmt \in {"teardown_delete", "teardown_commit"} -> 3

\* The count premium_user_count's result carried to the body of i.
ObservedCount(i) == obs[i].val[1][1]

Observed(i) == obs[i].tag = "list" /\ Len(obs[i].val) > 0

HoldsNoSetupRow(t) == DOMAIN t \cap SetupRows = {}

\* ----------------------------------------------------------------- C1
\* C1: an invocation whose setup succeeded has its teardown invoked exactly
\* once, whether the body returned, failed its assertion or raised: the
\* generator is never resumed twice, and once the body has ended the
\* teardown is pending or has been invoked once.
C1_TeardownExactlyOnce ==
    \A i \in Invocations :
       /\ TeardownInvocations(i) <= 1
       /\ Executed(i, "teardown_commit") <= TeardownInvocations(i)
       /\ (SetupSucceeded(i) /\ report[i].call # NotRun =>
              \/ pc[i] = "teardown_delete" /\ TeardownInvocations(i) = 0
              \/ TeardownInvocations(i) = 1)
       /\ (SetupSucceeded(i) /\ pc[i] = "done" => TeardownInvocations(i) = 1)

\* A session in which one body returned and the other failed, each with its
\* teardown invoked once.
C1_Witness ==
    /\ \A i \in Invocations : pc[i] = "done" /\ TeardownInvocations(i) = 1
    /\ \E i \in Invocations : report[i].call = "passed"
    /\ \E i \in Invocations : report[i].call = "failed"

C3_SetupFailureStops ==
    \A i \in Invocations :
       report[i].setup = "error" =>
          /\ pc[i] = "done"
          /\ report[i].call = NotRun /\ report[i].teardown = NotRun
          /\ \A k \in 1..Len(log[i]) : Phase(log[i][k][1]) = 1
          /\ log[i][Len(log[i])][2] # "ok"
          /\ signalled[i] = << <<"setup", ExceptionOf(log[i][Len(log[i])][2])>> >>

\* The commit of the setup raised after both inserts.
C3_Witness ==
    \E i \in Invocations :
       /\ report[i].setup = "error"
       /\ Len(log[i]) = 3
       /\ log[i][3][1] = "setup_commit"

\* ----------------------------------------------------------------- C4
\* C4: after an invocation whose setup and teardown ran to their end, the
\* customers table is empty, for the session and as committed, whether the
\* body passed or failed its assertion.
C4_TableEmptyAfter ==
    \A i \in Invocations :
       CleanedUp(i) /\ report[i].call \in {"passed", "failed"} =>
          committed = EmptyBag /\ view = EmptyBag

\* The body failed its assertion and the table is empty afterwards.
C4_Witness ==
    \E i \in Invocations :
       /\ CleanedUp(i)
       /\ signalled[i] = << <<"call", "AssertionError">> >>
       /\ committed = EmptyBag

\* ----------------------------------------------------------------- C5
\* The table holding exactly the two rows of the setup.
SetupTable == SetToBag(SetupRows)

\* C5: premium_user_count returns the number of premium rows, so that on the
\* two rows of the setup the comparison with 1 is true and the test passes.
\* (The body has just ended: the session's rows are those the query read.)
C5_ReturnsTheCount ==
    \A i \in Invocations :
       pc[i] = "teardown_delete" /\ obs[i].tag # "none" =>
          /\ PyEq(obs[i], PyInt(CountWhere(view, "premium")))
          /\ (view = SetupTable => report[i].call = "passed")

\* ----------------------------------------------------------------- C6
\* C6 as stated, on the invocations whose setup and teardown ran to their
\* end: the table afterwards holds what it held before the setup.
C6_ContentRestored ==
    \A i \in Invocations :
       CleanedUp(i) => committed = before[i] /\ view = before[i]

\* C6, amended: after an invocation whose setup and teardown ran to their
\* end, whatever the body's outcome, the table holds what it held before the
\* setup exactly when it was empty then; rows it held before are deleted
\* with the rows of the setup, not restored.
C6_RestoredIffEmptyBefore ==
    \A i \in Invocations :
       CleanedUp(i) =>
          /\ (before[i] = EmptyBag => committed = before[i] /\ view = before[i])
          /\ (before[i] # EmptyBag =>
                 /\ committed # before[i]
                 /\ \A r \in DOMAIN before[i] : r \notin DOMAIN committed)

\* A table that held a row before the setup has lost it after the teardown.
C6_Witness ==
    \E i \in Invocations :
       /\ CleanedUp(i)
       /\ before[i] # EmptyBag
       /\ committed = EmptyBag

\* ----------------------------------------------------------------- C7
\* C7: after a setup that failed on a table holding none of its rows, the
\* table holds none of its rows, neither for the session nor as committed.
C7_FailedSetupLeavesNothing ==
    \A i \in Invocations :
       (/\ report[i].setup = "error"
        /\ JustCompleted(i)
        /\ HoldsNoSetupRow(before[i]))
       => HoldsNoSetupRow(view) /\ HoldsNoSetupRow(committed)

\* ----------------------------------------------------------------- C8
\* C8: when the teardown raises after the body has failed, the caller is
\* signalled both failures, the body's first: the teardown's failure does
\* not replace it.
C8_BothFailuresSurfaced ==
    \A i \in Invocations :
       report[i].call = "failed" /\ report[i].teardown = "error" =>
          /\ Len(signalled[i]) = 2
          /\ signalled[i][1] = <<"call", BodyFailure(i)>>
          /\ signalled[i][2][1] = "teardown"

\* The assertion failed and then the delete of the teardown raised.
C8_Witness ==
    \E i \in Invocations :
       /\ pc[i] = "done"
       /\ signalled[i] = << <<"call", "AssertionError">>,
                            <<"teardown", "DriverError">> >>

\* ----------------------------------------------------------------- C9
\* C9: the statements of one invocation run in the order setup, body,
\* teardown: the body starts only after the setup's commit has returned,
\* the delete of the teardown only after the body has ended, and no
\* statement of an earlier phase follows one of a later phase.
C9_StrictSequence ==
    \A i \in Invocations :
       /\ \A a, b \in 1..Len(log[i]) :
             a < b => Phase(log[i][a][1]) <= Phase(log[i][b][1])
       /\ \A b \in 1..Len(log[i]) :
             Phase(log[i][b][1]) = 2 =>
                \E a \in 1..(b - 1) : log[i][a] = <<"setup_commit", "ok">>
       /\ \A b \in 1..Len(log[i]) :
             Phase(log[i][b][1]) = 3 =>
                /\ report[i].call # NotRun
                /\ \E a \in 1..(b - 1) : Phase(log[i][a][1]) = 2
       /\ (pc[i] \in {"call", "fetch"} => SetupSucceeded(i))

\* An invocation that executed all seven statements.
C9_Witness ==
    \E i \in Invocations :
       /\ pc[i] = "done"
       /\ [k \in 1..Len(log[i]) |-> log[i][k][1]] =
             <<"setup_insert1", "setup_insert2", "setup_commit", "call",
               "fetch", "teardown_delete", "teardown_commit">>

\* ---------------------------------------------------------------- C10
\* C10: with two invocations at once on the table, a body whose invocation
\* had the cursor to itself from its first insert on, starting from an empty
\* table, reads a premium count of 1; bodies of overlapping invocations need
\* not (C10_Witness).
C10_ExclusiveUseReadsOne ==
    \A i \in Invocations :
       Observed(i) /\ ~overlap[i] /\ before[i] = EmptyBag =>
          ObservedCount(i) = 1

\* Two overlapping invocations on a table that was empty: the first reads two
\* premium rows, the second none, its rows deleted by the first's teardown.
C10_Witness ==
    /\ Observed(1) /\ Observed(2)
    /\ before[1] = EmptyBag
    /\ overlap[1] /\ overlap[2]
    /\ ObservedCount(1) = 2
    /\ ObservedCount(2) = 0

\* ---------------------------------------------------------------- C11
\* The genre argument holds the text of a DROP statement.
HoldsStatementText(genre) ==
    \E k \in 1..Len(genre) : genre[k] = DropUsers

AssertionEvaluated(i) ==
    \E k \in 1..Len(log[i]) :
       /\ log[i][k][1] = "inline_fetch_assert"
       /\ log[i][k][2] \in {"ok", "AssertionError"}

\* Run i has ended and no later run has started.
InlineJustEnded(i) ==
    /\ pc[i] = "done"
    /\ \A j \in Invocations : j > i => pc[j] = InlineStatements[1]

\* C12: once a run of the test without a fixture has ended, its assertion
\* passed or failed, the table holds none of the rows the run inserted; so
\* the run that follows one on an empty table reads one premium row.
C12_InlineRecordsDestroyed ==
    /\ \A i \in Invocations :
          (/\ InlineJustEnded(i)
           /\ AssertionEvaluated(i)
           /\ HoldsNoSetupRow(before[i]))
          => HoldsNoSetupRow(committed) /\ HoldsNoSetupRow(view)
    /\ \A i \in Invocations :
          (/\ i > 1
           /\ Observed(i)
           /\ AssertionEvaluated(i - 1)
           /\ before[i - 1] = EmptyBag)
          => ObservedCount(i) = 1

====
